---- MODULE Spec2Model ----
(***************************************************************************)
(* Mini AI Studio (src/src/App.tsx): the retry/abort generation protocol,  *)
(* the bounded persisted history and the controller that wires them.       *)
(***************************************************************************)
EXTENDS Integers, Sequences, FiniteSets, TLC

(* ---------------------------------------------------------------- bounds *)
MaxChains == 1      \* Generate() invocations in one run of Spec (every input command free)
MaxRetryChains == 5 \* Generate() invocations in one run of SpecRetry (form filled once)
MaxStored == 6      \* longest array found in persisted storage at startup

(* ------------------------------------------------------ program constants *)
STYLES == <<"Editorial", "Streetwear", "Vintage">>
HistoryCap == 5
OverloadThreshold == 3
maxAttempts == 3
baseDelay == 500
maxDim == 1920
sizeThreshold == 10 * 1024

Null == "null"
NullImage == [mime |-> "null"]          \* imageDataUrl === null
AbortError == "AbortError"
OverloadedMsg == "Model overloaded"

(* -------------------------------------------------------------- helpers *)
Range(s) == {s[i] : i \in DOMAIN s}
Min2(a, b) == IF a <= b THEN a ELSE b
Max2(a, b) == IF a >= b THEN a ELSE b

\* Array.prototype.slice(0, n)
Slice(s, n) == SubSeq(s, 1, Min2(Len(s), n))

\* String.prototype.trim on a prompt held as a sequence of characters
IsSpace(c) == c = " "
RECURSIVE TrimStart(_)
TrimStart(s) == IF s # <<>> /\ IsSpace(Head(s)) THEN TrimStart(Tail(s)) ELSE s
RECURSIVE TrimEnd(_)
TrimEnd(s) ==
  IF s # <<>> /\ IsSpace(s[Len(s)]) THEN TrimEnd(SubSeq(s, 1, Len(s) - 1)) ELSE s
Trim(s) == TrimEnd(TrimStart(s))

(* --------------------------------------------------------------- inputs *)
\* texts the user can leave in the prompt box
PromptInputs == { <<" ">>, <<" ", "a", " ">> }

\* simulated latency 1000 + Math.random() * 1000, in [1000, 2000)
ApiDelays == {1000, 1999}

\* uploaded files: declared media type, byte size, pixel size, decodable or not
Files ==
  { [type |-> "image/gif",  size |-> 4000,  width |-> 10,   height |-> 10,   ok |-> TRUE],
    [type |-> "image/jpeg", size |-> 5000,  width |-> 800,  height |-> 600,  ok |-> TRUE],
    [type |-> "image/png",  size |-> 3000,  width |-> 0,    height |-> 0,    ok |-> FALSE] }

\* a Generation as found in storage at startup
StoredGen(i) ==
  [ id |-> 0 - i,
    imageUrl |-> [mime |-> "image/png", width |-> 640, height |-> 480, scaled |-> FALSE],
    prompt |-> <<"a">>,
    style |-> STYLES[(i % 3) + 1],
    createdAt |-> 0 ]
StoredArray(n) == [i \in 1..n |-> StoredGen(i)]

\* raw values of localStorage[HISTORY_KEY]: absent, "", text that is not JSON,
\* or the text of a JSON value
NoEntry == [kind |-> "none"]
EmptyText == [kind |-> "empty"]
GarbageText == [kind |-> "garbage"]
JsonText(v) == [kind |-> "json", value |-> v]
JsonObject == [type |-> "object"]
JsonNull == [type |-> "null"]
JsonArray(items) == [type |-> "array", items |-> items]
InitialStorage ==
  { NoEntry, GarbageText, JsonText(JsonArray(StoredArray(MaxStored))) }

(* -------------------------------------------------------- storage helpers *)
JSONstringify(items) == JsonText(JsonArray(items))

saveHistory(items) == JSONstringify(Slice(items, HistoryCap))

\* mutant of loadHistory: the parsed array is returned whole
loadHistory_whole(raw) ==
  IF raw.kind \in {"none", "empty", "garbage"} THEN <<>>
  ELSE IF raw.value.type = "array" THEN raw.value.items
  ELSE <<>>

loadHistory(raw) ==
  IF raw.kind \in {"none", "empty"} THEN <<>>          \* if (!raw) return []
  ELSE IF raw.kind = "garbage" THEN <<>>               \* JSON.parse throws, catch
  ELSE IF raw.value.type = "array" THEN Slice(raw.value.items, HistoryCap)
  ELSE <<>>

(* ------------------------------------------------------ image normalizer *)
\* Numbers are IEEE 754 doubles: a significand of 53 bits, results rounded to
\* the nearest double, ties to the even significand. A double is held as
\* [m, e]: the bits of an integer, most significant first, over 2^e. Sides and
\* maxDim are integers below 2^13.
Significand == 53

RECURSIVE ToBits(_)
ToBits(n) == IF n = 0 THEN <<>> ELSE Append(ToBits(n \div 2), n % 2)

RECURSIVE FromBits(_)
FromBits(b) ==
  IF b = <<>> THEN 0 ELSE 2 * FromBits(SubSeq(b, 1, Len(b) - 1)) + b[Len(b)]

\* b + 1 on bits
Incr(b) ==
  LET zeros == {i \in DOMAIN b : b[i] = 0}
      last == CHOOSE i \in zeros : \A j \in zeros : j <= i
  IN IF zeros = {} THEN <<1>> \o [i \in DOMAIN b |-> 0]
     ELSE [i \in DOMAIN b |-> IF i < last THEN b[i] ELSE IF i = last THEN 1 ELSE 0]

\* the w low bits of n
FixedBits(n, w) == [i \in 1..w |-> (n \div 2^(w - i)) % 2]

\* a / b for integers a, b > 0: 2^k <= a / b < 2^(k+1); after its leading 1
\* the quotient is produced 13 bits at a time, 4 * 13 + 1 = Significand
Divide(a, b) ==
  LET k == CHOOSE j \in -14..14 :
             IF j >= 0 THEN b * 2^j <= a /\ a < b * 2^(j + 1)
             ELSE b <= a * 2^(0 - j) /\ a * 2^(0 - j) < 2 * b
      a0 == IF k < 0 THEN a * 2^(0 - k) ELSE a
      b0 == IF k > 0 THEN b * 2^k ELSE b
      r0 == a0 % b0
      r1 == (r0 * 2^13) % b0
      r2 == (r1 * 2^13) % b0
      r3 == (r2 * 2^13) % b0
      r4 == (r3 * 2^13) % b0
      q == <<1>> \o FixedBits((r0 * 2^13) \div b0, 13) \o FixedBits((r1 * 2^13) \div b0, 13)
                \o FixedBits((r2 * 2^13) \div b0, 13) \o FixedBits((r3 * 2^13) \div b0, 13)
      up == 2 * r4 > b0 \/ (2 * r4 = b0 /\ q[Significand] = 1)
  IN [m |-> IF up THEN Incr(q) ELSE q, e |-> Significand - 1 - k]

\* x * v for an integer x > 0 and a double v: v.m * x in 4 limbs of 14 bits,
\* then rounded to Significand bits
Times(x, v) ==
  LET n == Len(v.m)
      padded == [i \in 1..(56 - n) |-> 0] \o v.m
      t1 == FromBits(SubSeq(padded, 43, 56)) * x
      t2 == FromBits(SubSeq(padded, 29, 42)) * x + t1 \div 2^14
      t3 == FromBits(SubSeq(padded, 15, 28)) * x + t2 \div 2^14
      t4 == FromBits(SubSeq(padded, 1, 14)) * x + t3 \div 2^14
      raw == ToBits(t4) \o FixedBits(t3, 14) \o FixedBits(t2, 14) \o FixedBits(t1, 14)
      drop == Len(raw) - Significand
      kept == SubSeq(raw, 1, Significand)
      up == /\ raw[Significand + 1] = 1
            /\ (kept[Significand] = 1 \/ \E i \in (Significand + 2)..Len(raw) : raw[i] = 1)
  IN IF drop <= 0 THEN [m |-> raw, e |-> v.e]
     ELSE [m |-> IF up THEN Incr(kept) ELSE kept, e |-> v.e - drop]

\* Math.round(v): the nearest integer, a half upwards
MathRound(v) ==
  LET n == Len(v.m)
  IN IF v.e <= 0 THEN FromBits(v.m) * 2^(0 - v.e)
     ELSE FromBits(SubSeq(v.m, 1, n - v.e)) + (IF n >= v.e THEN v.m[n - v.e + 1] ELSE 0)

\* Math.round(x * scale) with scale = Math.min(d / w, d / h) = d / m for the
\* larger side m
RoundScaled(x, m, d) == MathRound(Times(x, Divide(d, m)))

DataUrl(mime, w, h, scaled) ==
  [mime |-> mime, width |-> w, height |-> h, scaled |-> scaled]

\* the encoding canvas.toDataURL(type, 0.9) produces: a type the canvas cannot
\* serialise (image/jpg is none) gives PNG
toDataURL(type) == IF type \in {"image/png", "image/jpeg"} THEN type ELSE "image/png"

\* mutant of downscaleIfNeeded: Math.max for Math.min in the scale factor
downscaleIfNeeded_maxScale(f, d, ctx) ==
  LET origDataUrl == DataUrl(f.type, f.width, f.height, FALSE)
      needsBySize == f.size > sizeThreshold
      needsByDim == f.width > d \/ f.height > d
      m == Min2(f.width, f.height)
      w == RoundScaled(f.width, m, d)
      h == RoundScaled(f.height, m, d)
      outType == IF f.type = "image/png" /\ needsBySize THEN "image/jpeg" ELSE f.type
  IN IF ~needsBySize /\ ~needsByDim THEN origDataUrl
     ELSE IF ~ctx THEN origDataUrl
     ELSE DataUrl(toDataURL(outType), w, h, TRUE)

\* mutant of downscaleIfNeeded: the output type is always the file's type
downscaleIfNeeded_keepType(f, d, ctx) ==
  LET origDataUrl == DataUrl(f.type, f.width, f.height, FALSE)
      needsBySize == f.size > sizeThreshold
      needsByDim == f.width > d \/ f.height > d
      m == Max2(f.width, f.height)
      w == RoundScaled(f.width, m, d)
      h == RoundScaled(f.height, m, d)
      outType == f.type
  IN IF ~needsBySize /\ ~needsByDim THEN origDataUrl
     ELSE IF ~ctx THEN origDataUrl
     ELSE DataUrl(toDataURL(outType), w, h, TRUE)

\* downscaleIfNeeded(file, d); ctx is whether canvas.getContext("2d") is non-null
downscaleIfNeeded(f, d, ctx) ==
  LET origDataUrl == DataUrl(f.type, f.width, f.height, FALSE)
      needsBySize == f.size > sizeThreshold
      needsByDim == f.width > d \/ f.height > d
      m == Max2(f.width, f.height)
      w == RoundScaled(f.width, m, d)
      h == RoundScaled(f.height, m, d)
      outType == IF f.type = "image/png" /\ needsBySize THEN "image/jpeg" ELSE f.type
  IN IF ~needsBySize /\ ~needsByDim THEN origDataUrl
     ELSE IF ~ctx THEN origDataUrl
     ELSE DataUrl(toDataURL(outType), w, h, TRUE)

(* ---------------------------------------------------------------- state *)
VARIABLES
  mounted,             \* App has rendered once (useState initialisers ran)
  imageDataUrl, prompt, style, status, isLoading, history, errorText,
  abortRef,            \* index in chains of the AbortController held, or 0
  storage,             \* localStorage[HISTORY_KEY]
  overloadErrorCount,
  chains,              \* one record per startGenerate invocation
  uploads,             \* files whose onUpload is suspended in downscaleIfNeeded
  nextId,              \* ids handed out by uuid()
  clock                \* logical time, one tick per timer expiry

vars ==
  << mounted, imageDataUrl, prompt, style, status, isLoading, history, errorText,
     abortRef, storage, overloadErrorCount, chains, uploads, nextId, clock >>

ui == << imageDataUrl, prompt, style >>

InitWith(payloads) ==
  /\ mounted = FALSE
  /\ imageDataUrl = NullImage
  /\ prompt = <<>>
  /\ style = "Editorial"
  /\ status = ""
  /\ isLoading = FALSE
  /\ history = <<>>
  /\ errorText = Null
  /\ abortRef = 0
  /\ storage \in payloads
  /\ overloadErrorCount = 0
  /\ chains = <<>>
  /\ uploads = {}
  /\ nextId = 1
  /\ clock = 0

Init == InitWith(InitialStorage)

\* const [history, setHistory] = useState(() => loadHistory())
Mount ==
  /\ ~mounted
  /\ mounted' = TRUE
  /\ history' = loadHistory(storage)
  /\ UNCHANGED << imageDataUrl, prompt, style, status, isLoading, errorText, abortRef,
                  storage, overloadErrorCount, chains, uploads, nextId, clock >>

(* ------------------------------------------------------------ call chain *)
NoReq == [imageDataUrl |-> NullImage, prompt |-> <<>>, style |-> Null]
NoGen == [id |-> 0]

InFlight(c) == c.pc \in {"api", "backoff"}
Terminal(c) == c.pc \in {"Success", "Fatal", "Cancelled"}
Live == {i \in DOMAIN chains : InFlight(chains[i])}

\* the closure of one startGenerate invocation and its AbortController
NewChain(req, hist) ==
  [ pc |-> "idle", attempt |-> 0, calls |-> 0, req |-> req, hist |-> hist,
    aborted |-> FALSE, listeners |-> 0, observed |-> FALSE, timer |-> 0,
    err |-> Null, result |-> NoGen ]

\* mutant of wait: the signal is never looked at
wait_unobserved(c, ms) == [c EXCEPT !.timer = ms]

\* wait(ms, signal): arm the timer and register onAbort, or reject at once when
\* the signal has already fired
wait(c, ms) ==
  IF c.aborted THEN [c EXCEPT !.timer = 0, !.err = AbortError]
  ELSE [c EXCEPT !.timer = ms, !.listeners = @ + 1, !.observed = TRUE]

\* setTimeout's callback: resolve(); the onAbort listener stays on the signal
expire(c) == [c EXCEPT !.timer = 0, !.observed = FALSE]

\* mockGenerateAPI up to its await on wait
mockGenerateAPI(c, d) == wait([c EXCEPT !.pc = "api", !.calls = @ + 1], d)

\* the chain's promise settles: the closure is dropped
settle(c, outcome, err, gen) ==
  [c EXCEPT !.pc = outcome, !.err = err, !.result = gen, !.timer = 0,
            !.observed = FALSE, !.req = NoReq, !.hist = <<>>]

\* mutant of Overloaded: > for >=
Overloaded_strict(n) == n > OverloadThreshold

\* if (overloadErrorCount >= 3) in mockGenerateAPI
Overloaded(n) == n >= OverloadThreshold

\* if (attempt >= maxAttempts) in generateWithRetries
Exhausted(attempt) == attempt >= maxAttempts

\* mutant of CounterAfterFailure: the reset is done on every failed attempt
CounterAfterFailure_reset(n, attempt) == 0

\* the counter after a failed attempt: if (attempt >= maxAttempts)
\* { overloadErrorCount = 0; throw e; }
CounterAfterFailure(n, attempt) == IF Exhausted(attempt) THEN 0 ELSE n

\* mutant of Backoff: exponent off by one
Backoff_doubled(attempt) == baseDelay * 2^attempt

\* baseDelay * Math.pow(2, attempt - 1)
Backoff(attempt) == baseDelay * 2^(attempt - 1)

\* e?.name === "AbortError"
IsAbort(err) == err = AbortError

\* the request startGenerate hands to generateWithRetries
MakeRequest(img, p, st) == [imageDataUrl |-> img, prompt |-> Trim(p), style |-> st]

\* mutant of MakeGeneration: the form's current values instead of the request's
MakeGeneration_live(req, id, now) ==
  [ id |-> id, imageUrl |-> imageDataUrl, prompt |-> Trim(prompt),
    style |-> style, createdAt |-> now ]

\* the object mockGenerateAPI returns
MakeGeneration(req, id, now) ==
  [ id |-> id, imageUrl |-> req.imageDataUrl, prompt |-> req.prompt,
    style |-> req.style, createdAt |-> now ]

\* [gen, ...history].slice(0, 5)
Insert(hist, gen) == Slice(<<gen>> \o hist, HistoryCap)

\* mutant of Finally: the loading flag is not lowered
Finally_stillLoading ==
  /\ UNCHANGED isLoading
  /\ abortRef' = 0

\* finally block of startGenerate
Finally ==
  /\ isLoading' = FALSE
  /\ abortRef' = 0

\* mutant of OnSuccess: saveHistory(history) for saveHistory(next)
OnSuccess_saveOld(c, gen) ==
  LET next == Insert(c.hist, gen)
  IN /\ history' = next
     /\ storage' = saveHistory(c.hist)
     /\ status' = "Done"
     /\ Finally
     /\ UNCHANGED errorText

\* try branch of startGenerate after generateWithRetries has returned gen
OnSuccess(c, gen) ==
  LET next == Insert(c.hist, gen)
  IN /\ history' = next
     /\ storage' = saveHistory(next)
     /\ status' = "Done"
     /\ Finally
     /\ UNCHANGED errorText

\* mutant of OnError: the history update runs on the failure path too
OnError_inserting(err) ==
  /\ IF IsAbort(err)
       THEN status' = "Aborted" /\ UNCHANGED errorText
       ELSE errorText' = err /\ status' = "Failed"
  /\ Finally
  /\ history' = Insert(history, NoGen)
  /\ storage' = saveHistory(Insert(history, NoGen))

\* mutant of OnError: the AbortError is reported like any other failure
OnError_abortAsFailure(err) ==
  /\ errorText' = err
  /\ status' = "Failed"
  /\ Finally
  /\ UNCHANGED << history, storage >>

\* catch and finally branches of startGenerate
OnError(err) ==
  /\ IF IsAbort(err)
       THEN status' = "Aborted" /\ UNCHANGED errorText
       ELSE errorText' = err /\ status' = "Failed"
  /\ Finally
  /\ UNCHANGED << history, storage >>

\* a wait entered by chain i either suspends the chain or rejects at once
Suspend(i, c) ==
  IF IsAbort(c.err)
    THEN /\ chains' = [chains EXCEPT ![i] = settle(c, "Cancelled", AbortError, NoGen)]
         /\ OnError(AbortError)
    ELSE /\ chains' = [chains EXCEPT ![i] = c]
         /\ UNCHANGED << status, errorText, isLoading, abortRef, history, storage >>

\* mutant of canGenerate: the button stays enabled while loading
canGenerate_whileLoading == imageDataUrl # NullImage /\ Len(Trim(prompt)) > 0

canGenerate == imageDataUrl # NullImage /\ Len(Trim(prompt)) > 0 /\ ~isLoading

\* click on generate-btn: startGenerate up to its first suspension
startGenerate ==
  /\ mounted
  /\ canGenerate
  /\ imageDataUrl # NullImage
  /\ \E d \in ApiDelays :
       LET req == MakeRequest(imageDataUrl, prompt, style)
           c == mockGenerateAPI(NewChain(req, history), d)
       IN chains' = Append(chains, c)
  /\ isLoading' = TRUE
  /\ status' = "Generating..."
  /\ errorText' = Null
  /\ abortRef' = Len(chains) + 1
  /\ UNCHANGED << mounted, ui, history, storage, overloadErrorCount, uploads, nextId,
                  clock >>

\* the timer armed by wait expires in chain i: resolve(), then the chain runs on
\* to its next await or to the end of startGenerate
TimerFires(i) ==
  LET c == expire(chains[i]) IN
  /\ chains[i].timer > 0
  /\ clock' = clock + 1
  /\ IF c.pc = "api"
       THEN \* mockGenerateAPI after its await
            IF Overloaded(overloadErrorCount)
              THEN \* catch of generateWithRetries
                   LET attempt == c.attempt + 1 IN
                   IF Exhausted(attempt)
                     THEN /\ overloadErrorCount' = CounterAfterFailure(overloadErrorCount, attempt)
                          /\ chains' = [chains EXCEPT ![i] =
                               settle([c EXCEPT !.attempt = attempt], "Fatal", OverloadedMsg, NoGen)]
                          /\ OnError(OverloadedMsg)
                          /\ UNCHANGED nextId
                     ELSE LET backoff == Backoff(attempt) IN
                          /\ Suspend(i, wait([c EXCEPT !.attempt = attempt, !.pc = "backoff"],
                                             backoff))
                          /\ overloadErrorCount' = CounterAfterFailure(overloadErrorCount, attempt)
                          /\ UNCHANGED nextId
              ELSE LET gen == MakeGeneration(c.req, nextId, clock') IN
                   /\ overloadErrorCount' = overloadErrorCount + 1
                   /\ nextId' = nextId + 1
                   /\ chains' = [chains EXCEPT ![i] = settle(c, "Success", Null, gen)]
                   /\ OnSuccess(c, gen)
       ELSE \* backoff wait over: next turn of the while loop of generateWithRetries
            /\ ~Exhausted(c.attempt)
            /\ \E d \in ApiDelays : Suspend(i, mockGenerateAPI(c, d))
            /\ UNCHANGED << overloadErrorCount, nextId >>
  /\ UNCHANGED << mounted, ui, uploads >>

\* click on abort-btn: abortRef.current?.abort()
abort ==
  /\ mounted
  /\ isLoading
  /\ IF abortRef # 0 /\ ~chains[abortRef].aborted
       THEN LET c == [chains[abortRef] EXCEPT !.aborted = TRUE, !.listeners = 0] IN
            IF c.observed
              THEN /\ chains' = [chains EXCEPT
                        ![abortRef] = settle(c, "Cancelled", AbortError, NoGen)]
                   /\ OnError(AbortError)
              ELSE /\ chains' = [chains EXCEPT ![abortRef] = c]
                   /\ UNCHANGED << status, errorText, isLoading, abortRef, history, storage >>
       ELSE UNCHANGED << chains, status, errorText, isLoading, abortRef, history, storage >>
  /\ UNCHANGED << mounted, ui, overloadErrorCount, uploads, nextId, clock >>

(* ------------------------------------------------------- input commands *)
ValidType(t) == t \in {"image/png", "image/jpeg", "image/jpg"}
BadTypeMsg == "Please upload a PNG or JPG image."
ProcessMsg == "Failed to process the image. "

\* mutant of onUpload: a rejected file also resets the preview
onUpload_resetting(f) ==
  /\ mounted
  /\ IF ~ValidType(f.type)
       THEN /\ errorText' = BadTypeMsg
            /\ imageDataUrl' = NullImage
            /\ UNCHANGED uploads
       ELSE /\ errorText' = Null
            /\ uploads' = uploads \cup {f}
            /\ UNCHANGED imageDataUrl
  /\ UNCHANGED << mounted, prompt, style, status, isLoading, history, abortRef, storage,
                  overloadErrorCount, chains, nextId, clock >>

\* onUpload up to its await
onUpload(f) ==
  /\ mounted
  /\ IF ~ValidType(f.type)
       THEN errorText' = BadTypeMsg /\ UNCHANGED uploads
       ELSE errorText' = Null /\ uploads' = uploads \cup {f}
  /\ UNCHANGED << mounted, ui, status, isLoading, history, abortRef, storage,
                  overloadErrorCount, chains, nextId, clock >>

\* onUpload after downscaleIfNeeded has settled
onUploadResume(f, ctx) ==
  /\ f \in uploads
  /\ uploads' = uploads \ {f}
  /\ IF f.ok
       THEN /\ imageDataUrl' = downscaleIfNeeded(f, maxDim, ctx)
            /\ status' = "Image ready"
            /\ UNCHANGED errorText
       ELSE /\ errorText' = ProcessMsg
            /\ UNCHANGED << imageDataUrl, status >>
  /\ UNCHANGED << mounted, prompt, style, isLoading, history, abortRef, storage,
                  overloadErrorCount, chains, nextId, clock >>

\* textarea onChange (disabled while there is no image)
setPrompt(t) ==
  /\ mounted
  /\ imageDataUrl # NullImage
  /\ t # prompt
  /\ prompt' = t
  /\ UNCHANGED << mounted, imageDataUrl, style, status, isLoading, history, errorText,
                  abortRef, storage, overloadErrorCount, chains, uploads, nextId, clock >>

\* select onChange (disabled while there is no image)
setStyle(v) ==
  /\ mounted
  /\ imageDataUrl # NullImage
  /\ v # style
  /\ style' = v
  /\ UNCHANGED << mounted, imageDataUrl, prompt, status, isLoading, history, errorText,
                  abortRef, storage, overloadErrorCount, chains, uploads, nextId, clock >>

\* mutant of restore: the clicked item is taken out of the history
restore_takingOut(g) ==
  /\ mounted
  /\ imageDataUrl' = g.imageUrl
  /\ prompt' = g.prompt
  /\ style' = g.style
  /\ status' = "Restored from history"
  /\ history' = SelectSeq(history, LAMBDA h : h # g)
  /\ UNCHANGED << mounted, isLoading, errorText, abortRef, storage,
                  overloadErrorCount, chains, uploads, nextId, clock >>

\* click on a history item
restore(g) ==
  /\ mounted
  /\ imageDataUrl' = g.imageUrl
  /\ prompt' = g.prompt
  /\ style' = g.style
  /\ status' = "Restored from history"
  /\ UNCHANGED << mounted, isLoading, history, errorText, abortRef, storage,
                  overloadErrorCount, chains, uploads, nextId, clock >>

\* mutant of clearHistory: the empty history is not persisted
clearHistory_memoryOnly ==
  /\ mounted
  /\ history # <<>>
  /\ history' = <<>>
  /\ UNCHANGED << mounted, ui, status, isLoading, errorText, abortRef, storage,
                  overloadErrorCount, chains, uploads, nextId, clock >>

\* click on clear-btn (rendered only while the history is not empty)
clearHistory ==
  /\ mounted
  /\ history # <<>>
  /\ history' = <<>>
  /\ storage' = saveHistory(<<>>)
  /\ UNCHANGED << mounted, ui, status, isLoading, errorText, abortRef,
                  overloadErrorCount, chains, uploads, nextId, clock >>

Next ==
  \/ Mount
  \/ \E f \in Files : onUpload(f)
  \/ \E f \in Files, ctx \in BOOLEAN : onUploadResume(f, ctx)
  \/ \E t \in PromptInputs : setPrompt(t)
  \/ \E v \in Range(STYLES) : setStyle(v)
  \/ Len(chains) < MaxChains /\ startGenerate
  \/ \E i \in DOMAIN chains : TimerFires(i)
  \/ abort
  \/ \E g \in Range(history) : restore(g)
  \/ clearHistory

Spec == Init /\ [][Next]_vars

(* The form is filled as in cypress/e2e/generate.cy.ts and left alone once    *)
(* Generate is enabled: long runs of call chains with Abort and Clear.        *)
FormFile == [type |-> "image/jpeg", size |-> 5000, width |-> 800, height |-> 600, ok |-> TRUE]

NextRetry ==
  \/ Mount
  \/ imageDataUrl = NullImage /\ uploads = {} /\ onUpload(FormFile)
  \/ \E ctx \in BOOLEAN : onUploadResume(FormFile, ctx)
  \/ Len(Trim(prompt)) = 0 /\ \E t \in PromptInputs : setPrompt(t)
  \/ style = "Editorial" /\ setStyle("Streetwear")
  \/ Len(chains) < MaxRetryChains /\ startGenerate
  \/ \E i \in DOMAIN chains : TimerFires(i)
  \/ abort
  \/ clearHistory

SpecRetry == Init /\ [][NextRetry]_vars

\* timers expire: a pending setTimeout callback is eventually run
FairSpecRetry == SpecRetry /\ WF_vars(\E i \in DOMAIN chains : TimerFires(i))

(* The same runs with the history items clickable, from an empty storage or   *)
(* from one stored generation.                                                *)
InitHistory == InitWith({NoEntry, JsonText(JsonArray(StoredArray(1)))})

NextHistory ==
  \/ NextRetry
  \/ \E g \in Range(history) : restore(g)

SpecHistory == InitHistory /\ [][NextHistory]_vars

(* Startup over every kind of persisted payload: loadHistory on its own.      *)
RECURSIVE SeqsUpTo(_, _)
SeqsUpTo(S, n) ==
  IF n = 0 THEN {<<>>}
  ELSE LET shorter == SeqsUpTo(S, n - 1)
       IN shorter \cup {Append(q, x) : q \in {r \in shorter : Len(r) = n - 1}, x \in S}

Payloads ==
  { NoEntry, EmptyText, GarbageText, JsonText(JsonObject), JsonText(JsonNull) }
    \cup { JsonText(JsonArray(a)) : a \in SeqsUpTo({StoredGen(1), StoredGen(2)}, MaxStored) }

InitLoad == InitWith(Payloads)

NextLoad ==
  \/ Mount
  \/ clearHistory

SpecLoad == InitLoad /\ [][NextLoad]_vars

(* The normalizer on its own: one file is offered and normalized per run.     *)
\* pixel sizes around maxDim, and sides whose scaled length falls on a half
ImageSides == {1, 2, 3, 11, 600, 800, 1919, 1920, 1921, 2304, 2816, 3840, 5000}

\* byte sizes around 10 * 1024 and around 10 * 1024 * 1024
FileSizes == {5000, 10240, 10241, 10485760, 10485761}

NormalizerFiles ==
  { [type |-> t, size |-> b, width |-> w, height |-> h, ok |-> TRUE] :
      t \in {"image/png", "image/jpeg", "image/jpg"}, b \in FileSizes,
      w \in ImageSides, h \in ImageSides }
    \cup {f \in Files : ~ValidType(f.type) \/ ~f.ok}

InitNormalize == InitWith({NoEntry})

NextNormalize ==
  \/ Mount
  \/ imageDataUrl = NullImage /\ uploads = {} /\ \E f \in NormalizerFiles : onUpload(f)
  \/ \E f \in NormalizerFiles, ctx \in BOOLEAN : onUploadResume(f, ctx)

SpecNormalize == InitNormalize /\ [][NextNormalize]_vars

(* ================================================================ claims *)
IsUncancelled(c) == c.pc \in {"Success", "Fatal"}
Uncancelled == SelectSeq(chains, IsUncancelled)
Started(i) == i \notin DOMAIN chains /\ i \in DOMAIN chains'
Settles(i, outcome) == i \in DOMAIN chains /\ InFlight(chains[i]) /\ chains'[i].pc = outcome

\* C1: counting only the chains that were not cancelled, the 1st, 2nd and 3rd
\* succeed on their first attempt, the 4th fails all three attempts with
\* 'Model overloaded' and leaves the counter at 0, and the 5th succeeds on its
\* first attempt.
C1_OverloadPattern ==
  LET U == Uncancelled IN
  /\ \A k \in DOMAIN U \cap {1, 2, 3, 5} :
       U[k].pc = "Success" /\ U[k].calls = 1 /\ U[k].attempt = 0
  /\ Len(U) >= 4 =>
       /\ U[4].pc = "Fatal" /\ U[4].calls = 3 /\ U[4].attempt = 3
       /\ U[4].err = OverloadedMsg
  /\ Len(U) = 3 => overloadErrorCount = 3
  /\ Len(U) = 4 => overloadErrorCount = 0
  /\ Len(U) = 5 => overloadErrorCount = 1

C1_Witness ==
  /\ Len(chains) = 5
  /\ \A i \in DOMAIN chains : IsUncancelled(chains[i])

\* C2: when the signal of a chain in flight fires, the chain ends at once as
\* Cancelled with the AbortError, in the attempt it was in (no attempt is
\* added), and a chain that has ended never moves again.
C2_AbortStopsChain ==
  [][ \A i \in DOMAIN chains :
        /\ (InFlight(chains[i]) /\ ~chains[i].aborted /\ chains'[i].aborted) =>
             /\ chains'[i].pc = "Cancelled"
             /\ chains'[i].err = AbortError
             /\ chains'[i].calls = chains[i].calls
             /\ chains'[i].attempt = chains[i].attempt
             /\ chains'[i].timer = 0
             /\ status' = "Aborted"
        /\ Terminal(chains[i]) => chains'[i] = chains[i] ]_vars

\* one chain cancelled in its first attempt's delay, one cancelled in a backoff
C2_Witness ==
  \E i, j \in DOMAIN chains :
    /\ chains[i].pc = "Cancelled" /\ chains[i].attempt = 0 /\ chains[i].calls = 1
    /\ chains[j].pc = "Cancelled" /\ chains[j].attempt = 1 /\ chains[j].calls = 1

\* C3: every entry of the history was loaded from storage or is the result of
\* a chain that ended in Success, and a chain that ends in Fatal-Failure or
\* Cancelled leaves the history and the persisted history as they were.
C3_HistoryFromSuccess ==
  [][ /\ \A g \in Range(history') :
           \/ g \in Range(Slice(StoredArray(MaxStored), HistoryCap))
           \/ \E i \in DOMAIN chains' :
                chains'[i].pc = "Success" /\ chains'[i].result = g
      /\ \A i \in DOMAIN chains :
           (Settles(i, "Fatal") \/ Settles(i, "Cancelled")) =>
             history' = history /\ storage' = storage ]_vars

C3_Witness ==
  /\ \E i \in DOMAIN chains : chains[i].pc = "Fatal"
  /\ \E i \in DOMAIN chains : chains[i].pc = "Cancelled"
  /\ \E g \in Range(history) : g.id > 0

\* C4: the history never holds more than 5 entries, and when a chain succeeds
\* the history becomes the returned Generation followed by the entries the
\* history held just before, cut to 5.
C4_PrependToCurrent ==
  [][ /\ Len(history') <= HistoryCap
      /\ \A i \in DOMAIN chains :
           Settles(i, "Success") =>
             history' = Slice(<<chains'[i].result>> \o history, HistoryCap) ]_vars

\* C5: a ClearHistory step leaves an empty history and a storage from which
\* loadHistory reads the empty sequence, and that stays so until a chain succeeds.
C5_ClearThenLoad ==
  [][ /\ (history # <<>> /\ history' = <<>>) => loadHistory(storage') = <<>>
      /\ (loadHistory(storage) = <<>> /\ ~(\E i \in DOMAIN chains : Settles(i, "Success")))
           => loadHistory(storage') = <<>> ]_vars

C5_Witness ==
  /\ mounted
  /\ history = <<>>
  /\ storage = JsonText(JsonArray(<<>>))
  /\ chains # <<>>

\* C6: what startup loads is empty for a missing, empty, non-JSON or non-array
\* entry and is the first min(5, n) elements of a stored array of n elements;
\* it never has more than 5 elements.
C6_LoadBounded ==
  LET isArray == storage.kind = "json" /\ storage.value.type = "array"
      h == loadHistory(storage)
  IN /\ Len(h) <= 5
     /\ ~isArray => h = <<>>
     /\ isArray =>
          /\ Len(h) = Min2(Len(storage.value.items), 5)
          /\ \A i \in DOMAIN h : h[i] = storage.value.items[i]
     /\ mounted => history = h

C6_Witness ==
  /\ mounted
  /\ storage.kind = "json" /\ storage.value.type = "array"
  /\ Len(storage.value.items) > 5
  /\ Len(history) = 5

\* C7: the request of a chain holds the image, the trimmed prompt and the style
\* of the moment Generate was invoked, it does not change while the chain is in
\* flight, and the Generation of a successful chain carries exactly these values.
C7_RequestSnapshot ==
  [][ /\ \A i \in DOMAIN chains' :
           Started(i) =>
             /\ chains'[i].req.imageDataUrl = imageDataUrl
             /\ chains'[i].req.prompt = Trim(prompt)
             /\ chains'[i].req.style = style
      /\ \A i \in DOMAIN chains :
           /\ (InFlight(chains[i]) /\ InFlight(chains'[i])) => chains'[i].req = chains[i].req
           /\ Settles(i, "Success") =>
                /\ chains'[i].result.imageUrl = chains[i].req.imageDataUrl
                /\ chains'[i].result.prompt = chains[i].req.prompt
                /\ chains'[i].result.style = chains[i].req.style
                /\ history'[1] = chains'[i].result ]_vars

\* the image was replaced while the chain that has just succeeded was in flight
C7_Witness ==
  /\ status = "Done"
  /\ history # <<>>
  /\ history[1].id > 0
  /\ history[1].imageUrl # imageDataUrl
  /\ history[1].style # style
  /\ history[1].prompt # Trim(prompt)

\* C8: a chain is started only from a state with an image, a prompt that is not
\* blank and nothing in flight; so at most one chain is in flight, it is the one
\* abortRef holds, and isLoading tells whether there is one.
C8_OneChainAtATime ==
  [][ /\ \A i \in DOMAIN chains' :
           Started(i) =>
             /\ imageDataUrl # NullImage
             /\ Len(Trim(prompt)) > 0
             /\ ~isLoading
             /\ \A j \in DOMAIN chains : ~InFlight(chains[j])
      /\ Cardinality({i \in DOMAIN chains' : InFlight(chains'[i])}) <= 1
      /\ \A i \in DOMAIN chains' : InFlight(chains'[i]) <=> abortRef' = i
      /\ isLoading' <=> (\E i \in DOMAIN chains' : InFlight(chains'[i])) ]_vars

C8_Witness ==
  /\ Len(chains) >= 2
  /\ Cardinality(Live) = 1
  /\ isLoading
  /\ abortRef = Len(chains)

\* C9: a chain in flight eventually ends, and whenever no chain is in flight
\* isLoading is false, abortRef is empty and Generate is enabled as long as the
\* image and a non-blank prompt are there.
C9_ChainsEnd ==
  /\ [](Live = {} =>
          /\ ~isLoading
          /\ abortRef = 0
          /\ (imageDataUrl # NullImage /\ Len(Trim(prompt)) > 0 => canGenerate))
  /\ \A i \in 1..MaxRetryChains :
       (i \in DOMAIN chains /\ InFlight(chains[i]))
         ~> (i \in DOMAIN chains /\ Terminal(chains[i]) /\ ~isLoading /\ abortRef = 0)

\* Generate then Abort: the spinner is gone and the button is enabled
C9_Witness ==
  /\ Len(chains) = 1
  /\ chains[1].pc = "Cancelled"
  /\ ~isLoading
  /\ canGenerate

\* C10: when attempt k of a chain fails, the chain waits baseDelay * 2^(k-1)
\* (500 ms after attempt 1, 1000 ms after attempt 2) if k < maxAttempts, and
\* otherwise ends at once with that error and the counter reset to 0; attempt
\* k+1 starts when the backoff is over, and no chain makes more than
\* maxAttempts attempts.
C10_BackoffSchedule ==
  [][ \A i \in DOMAIN chains :
        LET k == chains[i].calls IN
        /\ chains'[i].calls <= maxAttempts
        /\ (chains[i].pc = "api" /\ chains'[i].pc \in {"backoff", "Fatal"}) =>
             IF k < maxAttempts
               THEN /\ chains'[i].pc = "backoff"
                    /\ chains'[i].timer = baseDelay * 2^(k - 1)
                    /\ k = 1 => chains'[i].timer = 500
                    /\ k = 2 => chains'[i].timer = 1000
                    /\ chains'[i].calls = k
                    /\ overloadErrorCount' = overloadErrorCount
               ELSE /\ chains'[i].pc = "Fatal"
                    /\ chains'[i].timer = 0
                    /\ chains'[i].err = OverloadedMsg
                    /\ overloadErrorCount' = 0
        /\ (chains[i].pc = "backoff" /\ chains'[i].pc = "api") =>
             chains'[i].calls = k + 1 ]_vars

\* a chain that went through both backoffs and gave up after its third attempt
C10_Witness ==
  \E i \in DOMAIN chains :
    /\ chains[i].pc = "Fatal" /\ chains[i].calls = maxAttempts
    /\ overloadErrorCount = 0

\* C11: a chain that ends Cancelled leaves status 'Aborted' and the error
\* message as it was (empty since Generate); one that ends by exhausting its
\* attempts leaves status 'Failed' and the error message 'Model overloaded'; one
\* that succeeds leaves status 'Done'; while a chain is in flight the status is
\* 'Generating...', and a finished chain leaves no other status.
StatusOf(c) ==
  CASE c.pc = "Cancelled" -> "Aborted"
    [] c.pc = "Fatal" -> "Failed"
    [] c.pc = "Success" -> "Done"
    [] OTHER -> "Generating..."

C11_FinishedStatus ==
  [][ /\ \A i \in DOMAIN chains :
           /\ Settles(i, "Cancelled") =>
                status' = "Aborted" /\ errorText' = errorText /\ errorText' = Null
           /\ Settles(i, "Fatal") =>
                status' = "Failed" /\ errorText' = OverloadedMsg
           /\ Settles(i, "Success") =>
                status' = "Done" /\ errorText' = errorText /\ errorText' = Null
           /\ (InFlight(chains[i]) /\ Terminal(chains'[i])) =>
                status' \in {"Aborted", "Failed", "Done"}
      /\ chains' # <<>> => status' = StatusOf(chains'[Len(chains')]) ]_vars

\* the three ways a chain ends have all been seen, the last one Cancelled
C11_Witness ==
  /\ \E i \in DOMAIN chains : chains[i].pc = "Success"
  /\ \E i \in DOMAIN chains : chains[i].pc = "Fatal"
  /\ chains[Len(chains)].pc = "Cancelled"
  /\ status = "Aborted"
  /\ errorText = Null

\* C12: a step that puts up 'Please upload a PNG or JPG image.' changes nothing
\* else (image, prompt, style, status, history, storage and chains stay), a
\* file of another media type never reaches the normalizer, and the step in
\* which the normalizer fails on a file puts up the processing message and
\* leaves the image as it was.
C12_BadUploadNoChange ==
  [][ /\ (errorText' = BadTypeMsg /\ errorText # BadTypeMsg) =>
           UNCHANGED << imageDataUrl, prompt, style, status, history, storage, isLoading,
                        chains, uploads >>
      /\ \A f \in uploads' : ValidType(f.type)
      /\ \A f \in uploads \ uploads' :
           ~f.ok => /\ imageDataUrl' = imageDataUrl
                    /\ errorText' = ProcessMsg ]_vars

\* a GIF was offered while an image, a prompt and a history were there
C12_Witness ==
  /\ errorText = BadTypeMsg
  /\ imageDataUrl # NullImage
  /\ Len(Trim(prompt)) > 0
  /\ style # "Editorial"
  /\ history # <<>>
  /\ status = "Image ready"

\* the step in which onUpload resumes with the output of the normalizer for f
Normalized(f, ctx) == f.ok /\ onUploadResume(f, ctx)
OverDim(f) == f.width > maxDim \/ f.height > maxDim
\* r is x * maxDim / m rounded to the nearest integer, a half upwards
IsRounded(r, x, m) == 2 * m * r - m <= 2 * x * maxDim /\ 2 * x * maxDim < 2 * m * r + m
\* r is an integer nearest to x * maxDim / m: no further than a half from it
IsNearest(r, x, m) == 2 * m * r - m <= 2 * x * maxDim /\ 2 * x * maxDim <= 2 * m * r + m
LargerSideIsMaxDim(f, out, Rounds(_, _, _)) ==
  LET larger == Max2(f.width, f.height)
      smaller == Min2(f.width, f.height)
  IN /\ Max2(out.width, out.height) = maxDim
     /\ Rounds(Min2(out.width, out.height), smaller, larger)
     /\ (f.width >= f.height) => out.width = maxDim
     /\ (f.height >= f.width) => out.height = maxDim
     /\ out.width <= maxDim /\ out.height <= maxDim

\* C13: for every source image with a side over maxDim the output of
\* downscaleIfNeeded has its larger side equal to maxDim and its smaller side
\* equal to round(smaller * maxDim / larger); neither side exceeds maxDim.
C13_LargerSideIsMaxDim ==
  [][ \A f \in NormalizerFiles, ctx \in BOOLEAN :
        (Normalized(f, ctx) /\ OverDim(f)) =>
          LargerSideIsMaxDim(f, imageDataUrl', IsRounded) ]_vars

\* C13 as amended: when canvas.getContext("2d") gives a context the larger
\* side of the output is maxDim and the smaller side is an integer no further
\* than a half from smaller * maxDim / larger (at an exact half the doubles
\* may round either way), so neither side exceeds maxDim; when it gives none
\* the output is the original data URL at its source size.
C13_LargerSideIsMaxDimWithContext ==
  [][ \A f \in NormalizerFiles, ctx \in BOOLEAN :
        (Normalized(f, ctx) /\ OverDim(f)) =>
          IF ctx
            THEN imageDataUrl'.scaled /\ LargerSideIsMaxDim(f, imageDataUrl', IsNearest)
            ELSE imageDataUrl' = DataUrl(f.type, f.width, f.height, FALSE) ]_vars

\* a 2816 x 11 image came out as 1920 x 7: 11 * (1920 / 2816) is
\* 7.499999999999999 in doubles
C13_Witness ==
  /\ imageDataUrl # NullImage
  /\ imageDataUrl.scaled
  /\ imageDataUrl.width = maxDim
  /\ imageDataUrl.height = 7
  /\ status = "Image ready"

\* C14: a file of at most 10MB (10 * 1024 * 1024 bytes) whose width and height
\* are both at most maxDim comes out of the normalizer as its original data
\* URL, not rescaled: only a file over 10MB is rescaled on account of its size.
C14_TenMegabytes ==
  [][ \A f \in NormalizerFiles, ctx \in BOOLEAN :
        (Normalized(f, ctx) /\ f.size <= 10 * 1024 * 1024 /\ ~OverDim(f)) =>
          /\ ~imageDataUrl'.scaled
          /\ imageDataUrl' = DataUrl(f.type, f.width, f.height, FALSE) ]_vars

\* C15: the step in which a chain succeeds and the step of ClearHistory leave
\* the persisted history equal to the in-memory history; no other step (Abort,
\* SelectHistoryItem, Upload, SetPrompt, SetStyle, a chain failing, a chain
\* being cancelled, a retry) changes what is persisted.
Succeeds == \E i \in DOMAIN chains : Settles(i, "Success")
Cleared == history # <<>> /\ history' = <<>>

C15_PersistedEqualsMemory ==
  [][ /\ (Succeeds \/ Cleared) =>
           /\ storage' = JSONstringify(history')
           /\ loadHistory(storage') = history'
      /\ storage' # storage => (Succeeds \/ Cleared) ]_vars

\* a chain failed, one was cancelled, one succeeded, and an item was restored
C15_Witness ==
  /\ status = "Restored from history"
  /\ \E i \in DOMAIN chains : chains[i].pc = "Fatal"
  /\ \E i \in DOMAIN chains : chains[i].pc = "Cancelled"
  /\ history # <<>>
  /\ \E g \in Range(history) : g.id > 0
  /\ storage = JSONstringify(history)

\* C16: when a chain succeeds after the history it started from was cleared
\* while it was in flight, the history and the persisted history are exactly
\* the one new Generation, and no entry that was cleared is back.
C16_ClearInFlightStays ==
  [][ \A i \in DOMAIN chains :
        (Settles(i, "Success") /\ chains[i].hist # <<>> /\ history = <<>>) =>
          /\ history' = << chains'[i].result >>
          /\ loadHistory(storage') = << chains'[i].result >>
          /\ \A g \in Range(chains[i].hist) : g \notin Range(history') ]_vars

\* the form shows the image, prompt and style of g
Shows(g) == imageDataUrl = g.imageUrl /\ prompt = g.prompt /\ style = g.style
\* the request was made from the image, prompt and style of g
RegeneratedFrom(req, g) ==
  req.imageDataUrl = g.imageUrl /\ req.prompt = Trim(g.prompt) /\ req.style = g.style
\* a click on a history item: the form takes the item's values and nothing
\* else changes
RestoreFrame ==
  /\ \A g \in Range(history) :
       restore(g) =>
         /\ Shows(g)' /\ status' = "Restored from history"
         /\ UNCHANGED << history, storage, overloadErrorCount, chains, isLoading,
                         abortRef, errorText, nextId >>
  /\ (status' = "Restored from history" /\ status # "Restored from history") =>
       /\ \E g \in Range(history) : Shows(g)'
       /\ UNCHANGED << history, storage, overloadErrorCount, chains, isLoading,
                       abortRef, errorText, nextId >>
IsNewEntry(i) ==
  /\ chains'[i].result.id \notin {g.id : g \in Range(chains[i].hist) \cup Range(history)}
  /\ history'[1] = chains'[i].result

\* C17: SelectHistoryItem(g) puts g's image, prompt and style in the form and
\* 'Restored from history' in the status and changes nothing else; when a
\* Generate made from a restored entry succeeds, the history gets a new first
\* entry with a fresh id and the restored entry is still in the history.
C17_RestoreNoDedupe ==
  [][ /\ RestoreFrame
      /\ \A i \in DOMAIN chains :
           Settles(i, "Success") =>
             \A k \in DOMAIN history :
               RegeneratedFrom(chains[i].req, history[k]) =>
                 /\ IsNewEntry(i)
                 /\ history[k] \in Range(history') ]_vars

\* C17 as amended: ... the restored entry moves one place down and is still in
\* the history unless it was the fifth entry, which the cut to 5 drops.
C17_RestoreNoDedupeWithinCap ==
  [][ /\ RestoreFrame
      /\ \A i \in DOMAIN chains :
           Settles(i, "Success") =>
             \A k \in DOMAIN history :
               RegeneratedFrom(chains[i].req, history[k]) =>
                 /\ IsNewEntry(i)
                 /\ IF k < HistoryCap
                      THEN history'[k + 1] = history[k]
                      ELSE history[k] \notin Range(history') ]_vars

\* a stored entry was restored and generated again: both are in the history
C17_Witness ==
  /\ status = "Done"
  /\ Len(history) >= 2
  /\ history[1].id > 0
  /\ \E k \in 2..Len(history) :
       /\ history[k].id < 0
       /\ history[k].imageUrl = history[1].imageUrl
       /\ history[k].prompt = history[1].prompt
       /\ history[k].style = history[1].style

\* C18: with one chain in flight at a time every attempt of a chain ends as
\* its first attempt did: a chain succeeds only on its first attempt, an
\* attempt that follows a failed one fails too, a chain that gives up has
\* failed maxAttempts attempts, and no chain that has failed an attempt ever
\* succeeds (a chain that is cancelled has failed every attempt it finished).
C18_AttemptsAgree ==
  [][ \A i \in DOMAIN chains :
        LET c == chains[i]
            d == chains'[i]
        IN /\ (c.pc = "api" /\ d.pc = "Success") => c.calls = 1 /\ c.attempt = 0
           /\ (c.pc = "api" /\ c.attempt >= 1 /\ d.pc # "api") =>
                d.pc \in {"backoff", "Fatal", "Cancelled"}
           /\ (c.pc = "backoff" /\ d.pc = "api") => d.attempt >= 1 /\ d.attempt = c.attempt
           /\ d.pc = "Fatal" => d.calls = maxAttempts /\ d.attempt = maxAttempts
           /\ d.pc = "Success" => d.calls = 1 /\ d.attempt = 0
           /\ d.pc = "api" => d.attempt = d.calls - 1
           /\ d.pc = "backoff" => d.attempt = d.calls
           /\ d.attempt >= 1 => d.pc # "Success" ]_vars

\* one chain gave up after three failed attempts, another was cancelled after
\* two failed attempts
C18_Witness ==
  /\ \E i \in DOMAIN chains : chains[i].pc = "Fatal" /\ chains[i].calls = maxAttempts
  /\ \E i \in DOMAIN chains : chains[i].pc = "Cancelled" /\ chains[i].attempt = 2
  /\ \E i \in DOMAIN chains : chains[i].pc = "Success" /\ chains[i].calls = 1

\* C19: the overload counter stays within 0..3; it changes only by going up by
\* 1 in the step in which an attempt succeeds and by going to 0 in the step in
\* which a chain gives up; a chain that is cancelled leaves it as it is, and an
\* attempt that ends while the counter is 3 fails.
C19_CounterRange ==
  [][ /\ overloadErrorCount \in 0..OverloadThreshold
      /\ overloadErrorCount' \in 0..OverloadThreshold
      /\ overloadErrorCount' # overloadErrorCount =>
           \/ /\ \E i \in DOMAIN chains : Settles(i, "Success")
              /\ overloadErrorCount' = overloadErrorCount + 1
           \/ /\ \E i \in DOMAIN chains : Settles(i, "Fatal")
              /\ overloadErrorCount' = 0
      /\ \A i \in DOMAIN chains :
           /\ Settles(i, "Success") => overloadErrorCount' = overloadErrorCount + 1
           /\ Settles(i, "Fatal") =>
                overloadErrorCount = OverloadThreshold /\ overloadErrorCount' = 0
           /\ Settles(i, "Cancelled") => overloadErrorCount' = overloadErrorCount
           /\ (chains[i].pc = "api" /\ chains'[i].pc \notin {"api", "Cancelled"}
                 /\ overloadErrorCount = OverloadThreshold) =>
                chains'[i].pc \in {"backoff", "Fatal"} ]_vars

\* a chain was cancelled after a failed attempt, with the counter at 3, and the
\* chain after it failed its three attempts
C19_Witness ==
  \E i \in DOMAIN chains :
    /\ chains[i].pc = "Cancelled" /\ chains[i].attempt >= 1
    /\ i + 1 \in DOMAIN chains
    /\ chains[i + 1].pc = "Fatal"
    /\ overloadErrorCount = 0

\* C20: whenever the normalizer rescales an image, for its byte size or for a
\* side over maxDim, the output is no wider and no higher than the source.
C20_NeverEnlarges ==
  [][ \A f \in NormalizerFiles, ctx \in BOOLEAN :
        (Normalized(f, ctx) /\ imageDataUrl'.scaled) =>
          /\ imageDataUrl'.width <= f.width
          /\ imageDataUrl'.height <= f.height ]_vars

BySize(f) == f.size > sizeThreshold

\* C21: when the normalizer rescales, the output is JPEG if the source is PNG
\* and the rescale was triggered by byte size and not by a side over maxDim; in
\* every other rescale the output has the encoding of the source.
C21_ReencodeRule ==
  [][ \A f \in NormalizerFiles, ctx \in BOOLEAN :
        (Normalized(f, ctx) /\ imageDataUrl'.scaled) =>
          imageDataUrl'.mime =
            IF f.type = "image/png" /\ BySize(f) /\ ~OverDim(f)
              THEN "image/jpeg" ELSE f.type ]_vars

\* C21 as amended: the output is JPEG if the source is PNG and its byte size is
\* over the threshold, whether or not a side is over maxDim too; a PNG
\* rescaled for its sides alone stays PNG, a source of type image/jpeg stays
\* JPEG, and a source declared image/jpg comes out as PNG.
C21_ReencodeBySize ==
  [][ \A f \in NormalizerFiles, ctx \in BOOLEAN :
        (Normalized(f, ctx) /\ imageDataUrl'.scaled) =>
          /\ BySize(f) \/ OverDim(f)
          /\ imageDataUrl'.mime =
               IF f.type = "image/png" THEN (IF BySize(f) THEN "image/jpeg" ELSE "image/png")
               ELSE IF f.type = "image/jpeg" THEN "image/jpeg"
               ELSE "image/png" ]_vars

\* a 2816 x 11 source came out as a 1920 x 7 PNG
C21_Witness ==
  /\ imageDataUrl # NullImage
  /\ imageDataUrl.scaled
  /\ imageDataUrl.mime = "image/png"
  /\ imageDataUrl.width = maxDim /\ imageDataUrl.height = 7

\* C22: the abort observers registered on a chain's signal are exactly those of
\* its pending wait: one while a wait is pending, none once the wait has ended
\* by timeout or by abort.
C22_NoObserverLeak ==
  \A i \in DOMAIN chains :
    chains[i].listeners = IF chains[i].observed THEN 1 ELSE 0
====
